---- MODULE Spec2Model ----
\* Student-progress API of the EduFlip backend
\* (server/src/controllers/studentProgressController.ts): five request
\* handlers over a StudentProgress table keyed by userId.  Every handler is a
\* chain of asynchronous segments (synchronous prefix, StudentProgress.get,
\* continuation, save), and segments of different requests interleave freely.
\* The course and quiz handlers (courseController.ts, quizController.ts) work
\* on two further tables, Course and Quiz, in the same way.
EXTENDS Integers, Sequences, FiniteSets, TLC

VARIABLES
    store,      \* StudentProgress table: userId -> <<>> (no item) or <<record>>
    reqs,       \* one entry per HTTP request: inputs, position, locals, response
    clock,      \* the server clock read by new Date()
    courseTable,    \* Course table: courseId -> <<>> (no item) or <<record>>
    quizTable,    \* Quiz table: quizId -> <<>> (no item) or <<record>>
    calls,      \* one entry per course or quiz request being handled
    categoryTable,  \* Category table: categoryId -> <<>> or <<record>>
    categoryCalls   \* one entry per category request being handled

catalogVars == <<courseTable, quizTable, calls>>

categoryVars == <<categoryTable, categoryCalls>>

vars ==
    <<store, reqs, clock, courseTable, quizTable, calls, categoryTable,
      categoryCalls>>

----------------------------------------------------------------------------
\* Bounds of the model.

MaxReqs == 2
MaxClock == 1
MaxCalls == 2
MaxCategoryCalls == 2

Reqs == 1..MaxReqs
Calls == 1..MaxCalls
CategoryCalls == 1..MaxCategoryCalls

----------------------------------------------------------------------------
\* Input domains.

UserIds == {"u1", "u2"}

NoAuth == "noauth"

\* getAuth(req): no verified identity, or the identity of a user.
Callers == {NoAuth} \cup UserIds

ValidActivityTypes == {"Comment", "Reply", "Reaction"}

\* Request bodies are records that carry only the fields present in the JSON
\* body; an absent field reads as undefined.
LessonBodies ==
    { [courseId |-> "c1", sectionId |-> "s1", chapterId |-> "ch1"],
      [courseId |-> "c2", sectionId |-> "s1", chapterId |-> "ch1"],
      [sectionId |-> "s1", chapterId |-> "ch1"],
      [courseId |-> "c1", chapterId |-> "ch1"],
      [courseId |-> "c1", sectionId |-> "s1"],
      [courseId |-> "", sectionId |-> "s1", chapterId |-> "ch1"] }

QuizBodies ==
    { [quizId |-> "q1", courseId |-> "c1", score |-> 80, timeTaken |-> 30],
      [quizId |-> "q1", courseId |-> "c1", score |-> 0, completed |-> FALSE],
      [courseId |-> "c1", score |-> 80],
      [quizId |-> "q1", score |-> 80],
      [quizId |-> "q1", courseId |-> "c1"] }

DiscussionBodies ==
    { [courseId |-> "c1", activityType |-> "Comment", commentId |-> "cm1"],
      [courseId |-> "c1", activityType |-> "Reply", sectionId |-> "s1",
       chapterId |-> "ch1"],
      [courseId |-> "c1", activityType |-> "Reaction"],
      [courseId |-> "c1", activityType |-> "Invalid"],
      [activityType |-> "Comment"],
      [courseId |-> "c1"] }

NoBody == [x \in {} |-> 0]

----------------------------------------------------------------------------
\* JavaScript value helpers.

Has(b, f) == f \in DOMAIN b

\* !v is true for undefined and for the empty string.
Falsy(b, f) == ~Has(b, f) \/ b[f] = ""

\* Object literal with the listed fields; a field whose value is undefined is
\* not stored.
Pick(b, fs) == [f \in (fs \cap DOMAIN b) |-> b[f]]

\* Record union, left operand wins.
Merge(a, b) ==
    [f \in (DOMAIN a \cup DOMAIN b) |-> IF f \in DOMAIN a THEN a[f] ELSE b[f]]

\* An optional record is <<>> or <<record>>; the log of no record is empty.
LogOf(opt, log) == IF opt = <<>> THEN <<>> ELSE opt[1][log]

TotalEvents(opt) ==
    Len(LogOf(opt, "lessonAccessHistory")) + Len(LogOf(opt, "quizAttempts"))
        + Len(LogOf(opt, "discussionActivities"))

----------------------------------------------------------------------------
\* The access gate: !auth || auth.userId !== userId

Denied_OnlyUnverified(caller, userId) == caller = NoAuth

Denied(caller, userId) == caller = NoAuth \/ caller # userId

----------------------------------------------------------------------------
\* Request entries.

IdleReq ==
    [pc |-> "idle", kind |-> "none", caller |-> NoAuth, userId |-> "u1",
     body |-> NoBody, fetched |-> <<>>, progress |-> <<>>, currentTime |-> 0,
     status |-> 0, data |-> <<>>, nGet |-> 0, nSave |-> 0, nResp |-> 0,
     overlap |-> FALSE]

NewReq(kind, caller, userId, body) ==
    [IdleReq EXCEPT !.kind = kind, !.caller = caller, !.userId = userId,
                    !.body = body]

\* res.status(status).json(data), after which the handler returns.
Respond(q, status, data) ==
    [q EXCEPT !.pc = "done", !.status = status, !.data = data,
              !.nResp = @ + 1]

\* The call StudentProgress.get({ userId }) is issued.
IssueGet(q) == [q EXCEPT !.pc = "get", !.nGet = @ + 1]

\* Requests arrive in slot order.
CanArrive(r) ==
    /\ reqs[r].pc = "idle"
    /\ \A p \in Reqs : p < r => reqs[p].pc # "idle"

\* A handler that is suspended at an await.
InFlight(q) == q.pc \in {"get", "gotten", "save"}

\* Request r has run its synchronous prefix and is now the entry q.  The
\* overlap flag records that two requests for the same path userId were being
\* handled at the same time.
Arrive(r, q) ==
    LET busy == {p \in Reqs : InFlight(reqs[p]) /\ reqs[p].userId = q.userId}
    IN [p \in Reqs |->
          IF p = r THEN [q EXCEPT !.overlap = (busy # {})]
          ELSE IF p \in busy THEN [reqs[p] EXCEPT !.overlap = TRUE]
          ELSE reqs[p]]

----------------------------------------------------------------------------
\* Course and quiz requests: inputs and request entries.

Teachers == {"t1", "t2"}
CourseIds == {"c1", "c2"}
QuizIds == {"q1", "q2"}
QuestionIds == {"k1"}

\* Values uuidv4() returns for a new course, quiz and question.
CourseUuids == {"c1"}
QuizUuids == {"q1"}
QuestionUuids == {"k1"}

\* req.body of createCourse.
CourseBodies ==
    { [teacherId |-> "t1", teacherName |-> "Ann"],
      [teacherName |-> "Ann"] }

\* req.body of updateCourse.
CourseUpdates ==
    { [title |-> "Renamed"], [teacherId |-> "t2"], [courseId |-> "c2"] }

\* req.body of createQuiz.
NewQuizBodies ==
    { [courseId |-> "c1", title |-> "Quiz"], [courseId |-> "c1"] }

\* req.body of updateQuiz.
QuizUpdates ==
    { [title |-> "Renamed"], [quizId |-> "q2"],
      [questions |->
          << [questionId |-> "k1", text |-> "Which?", type |-> "MultipleChoice",
              options |-> << [id |-> "o1", text |-> "a"] >>] >>] }

\* req.body of addQuestion.
QuestionBodies ==
    { [text |-> "Why?", type |-> "Essay"],
      [text |-> "Which?", type |-> "MultipleChoice",
       options |-> << [id |-> "o1", text |-> "a"], [id |-> "o2", text |-> "b"] >>],
      [text |-> "Which?", type |-> "MultipleChoice",
       options |-> << [id |-> "o1", text |-> "a"] >>],
      [type |-> "Essay"] }

\* req.body of updateQuestion.
QuestionUpdates ==
    { [text |-> "Edited"], [options |-> << [id |-> "o1", text |-> "a"] >>] }

CourseKinds == {"createCourse", "updateCourse", "deleteCourse"}

IdleCall ==
    [pc |-> "idle", kind |-> "none", caller |-> "none", id |-> "none",
     questionId |-> "none", body |-> NoBody, uuid |-> "none", quiz |-> <<>>,
     course |-> <<>>, item |-> <<>>, status |-> 0]

NewCall(kind, caller, id, questionId, body, uuid) ==
    [IdleCall EXCEPT !.kind = kind, !.caller = caller, !.id = id,
                     !.questionId = questionId, !.body = body, !.uuid = uuid]

\* Entries are taken in the order in which the requests arrive.
CallCanArrive(k) ==
    /\ calls[k].pc = "idle"
    /\ \A j \in Calls : j < k => calls[j].pc # "idle"

Pending(q) == q.pc \in {"quizGet", "courseGet", "save", "delete"}

\* res.status(status).json(...); return
Answer(q, status) == [q EXCEPT !.pc = "done", !.status = status]

\* uuidv4() returns an id that no item and no request being handled holds.
FreshCourseId(id) ==
    /\ id \in CourseUuids
    /\ courseTable[id] = <<>>
    /\ \A k \in Calls : ~(Pending(calls[k]) /\ calls[k].uuid = id)

FreshQuizId(id) ==
    /\ id \in QuizUuids
    /\ quizTable[id] = <<>>
    /\ \A k \in Calls : ~(Pending(calls[k]) /\ calls[k].uuid = id)

FreshQuestionId(id) ==
    /\ id \in QuestionUuids
    /\ \A q \in QuizIds : quizTable[q] # <<>> =>
          \A i \in 1..Len(quizTable[q][1].questions) :
              quizTable[q][1].questions[i].questionId # id
    /\ \A k \in Calls : ~(Pending(calls[k]) /\ calls[k].uuid = id)

----------------------------------------------------------------------------
\* Category requests: inputs and request entries.

CategoryIds == {"g1", "g2"}

\* req.body of createCategory.
CategoryBodies ==
    { [name |-> "Math", slug |-> "math"],
      [name |-> "Art", slug |-> "art"],
      [name |-> "Math"] }

\* req.body of updateCategory.
CategoryUpdates ==
    { [slug |-> "art"], [slug |-> "math"], [name |-> "Renamed"] }

IdleCategoryCall ==
    [pc |-> "idle", kind |-> "none", id |-> "none", body |-> NoBody,
     uuid |-> "none", category |-> <<>>, item |-> <<>>, status |-> 0]

\* Entries are taken in the order in which the requests arrive.
CategoryCallCanArrive(k) ==
    /\ categoryCalls[k].pc = "idle"
    /\ \A j \in CategoryCalls : j < k => categoryCalls[j].pc # "idle"

CategoryPending(q) == q.pc \in {"get", "scan", "save", "delete"}

\* uuidv4() returns an id that no item and no request being handled holds.
FreshCategoryId(id) ==
    /\ id \in CategoryIds
    /\ categoryTable[id] = <<>>
    /\ \A k \in CategoryCalls :
          ~(CategoryPending(categoryCalls[k]) /\ categoryCalls[k].uuid = id)

CategoryInit ==
    /\ categoryTable = [g \in CategoryIds |-> <<>>]
    /\ categoryCalls = [k \in CategoryCalls |-> IdleCategoryCall]

----------------------------------------------------------------------------
\* Empty tables, no request yet.

CatalogInit ==
    /\ courseTable = [c \in CourseIds |-> <<>>]
    /\ quizTable = [q \in QuizIds |-> <<>>]
    /\ calls = [k \in Calls |-> IdleCall]

Init ==
    /\ store = [u \in UserIds |-> <<>>]
    /\ reqs = [r \in Reqs |-> IdleReq]
    /\ clock = 0
    /\ CatalogInit
    /\ CategoryInit

----------------------------------------------------------------------------
\* Records and events built by the handlers.

NewProgress(userId, lessons, quizzes, discussions, lastActive) ==
    [userId |-> userId, lessonAccessHistory |-> lessons,
     quizAttempts |-> quizzes, discussionActivities |-> discussions,
     lastActive |-> lastActive]

LessonEvent(b, t) ==
    Merge(Pick(b, {"courseId", "sectionId", "chapterId"}),
          [accessTimestamp |-> t])

QuizEvent(b, t) ==
    Merge(Pick(b, {"quizId", "courseId", "score", "timeTaken"}),
          [attemptTimestamp |-> t,
           completed |-> IF Has(b, "completed") THEN b.completed ELSE TRUE])

DiscussionEvent(b, t) ==
    Merge(Pick(b, {"courseId", "sectionId", "chapterId", "activityType",
                   "commentId"}),
          [timestamp |-> t])

\* The log a recording handler appends to.
TargetLog(kind) ==
    CASE kind = "recordLessonAccess" -> "lessonAccessHistory"
      [] kind = "recordQuizAttempt" -> "quizAttempts"
      [] kind = "recordDiscussionActivity" -> "discussionActivities"

Recorders ==
    {"recordLessonAccess", "recordQuizAttempt", "recordDiscussionActivity"}

EventOf(kind, b, t) ==
    CASE kind = "recordLessonAccess" -> LessonEvent(b, t)
      [] kind = "recordQuizAttempt" -> QuizEvent(b, t)
      [] kind = "recordDiscussionActivity" -> DiscussionEvent(b, t)

\* Variants of the record a recording handler builds: the event put at the
\* front of the log, the other logs reset on the append path, and the event
\* left out of a newly created record.
Recorded_Unshift(kind, userId, fetched, b, t) ==
    LET log == TargetLog(kind)
        ev == EventOf(kind, b, t)
    IN IF fetched = <<>>
       THEN [NewProgress(userId, <<>>, <<>>, <<>>, t) EXCEPT ![log] = <<ev>>]
       ELSE [fetched[1] EXCEPT ![log] = <<ev>> \o @, !.lastActive = t]

Recorded_ResetOthers(kind, userId, fetched, b, t) ==
    LET log == TargetLog(kind)
        ev == EventOf(kind, b, t)
    IN [NewProgress(userId, <<>>, <<>>, <<>>, t)
            EXCEPT ![log] = Append(LogOf(fetched, log), ev)]

Recorded_CreateEmpty(kind, userId, fetched, b, t) ==
    LET log == TargetLog(kind)
        ev == EventOf(kind, b, t)
    IN IF fetched = <<>>
       THEN NewProgress(userId, <<>>, <<>>, <<>>, t)
       ELSE [fetched[1] EXCEPT ![log] = Append(@, ev), !.lastActive = t]

\* Variants of the append path: lastActive reset to the epoch, and lastActive
\* left as fetched.
Recorded_EpochLastActive(kind, userId, fetched, b, t) ==
    LET log == TargetLog(kind)
        ev == EventOf(kind, b, t)
    IN IF fetched = <<>>
       THEN [NewProgress(userId, <<>>, <<>>, <<>>, t) EXCEPT ![log] = <<ev>>]
       ELSE [fetched[1] EXCEPT ![log] = Append(@, ev), !.lastActive = 0]

Recorded_StaleLastActive(kind, userId, fetched, b, t) ==
    LET log == TargetLog(kind)
        ev == EventOf(kind, b, t)
    IN IF fetched = <<>>
       THEN [NewProgress(userId, <<>>, <<>>, <<>>, t) EXCEPT ![log] = <<ev>>]
       ELSE [fetched[1] EXCEPT ![log] = Append(@, ev)]

\* Variants: the append path drops the oldest element of the log, and the
\* create path stamps lastActive with the epoch.
Recorded_DropsOldest(kind, userId, fetched, b, t) ==
    LET log == TargetLog(kind)
        ev == EventOf(kind, b, t)
    IN IF fetched = <<>>
       THEN [NewProgress(userId, <<>>, <<>>, <<>>, t) EXCEPT ![log] = <<ev>>]
       ELSE [fetched[1] EXCEPT
                ![log] = IF @ = <<>> THEN <<ev>> ELSE Append(Tail(@), ev),
                !.lastActive = t]

Recorded_CreateStampsEpoch(kind, userId, fetched, b, t) ==
    LET log == TargetLog(kind)
        ev == EventOf(kind, b, t)
    IN IF fetched = <<>>
       THEN [NewProgress(userId, <<>>, <<>>, <<>>, 0) EXCEPT ![log] = <<ev>>]
       ELSE [fetched[1] EXCEPT ![log] = Append(@, ev), !.lastActive = t]

\* if (!progress) { progress = new StudentProgress({...}) }
\* else { progress.<log>.push({...}); progress.lastActive = currentTime }
Recorded(kind, userId, fetched, b, t) ==
    LET log == TargetLog(kind)
        ev == EventOf(kind, b, t)
    IN IF fetched = <<>>
       THEN [NewProgress(userId, <<>>, <<>>, <<>>, t) EXCEPT ![log] = <<ev>>]
       ELSE [fetched[1] EXCEPT ![log] = Append(@, ev), !.lastActive = t]

----------------------------------------------------------------------------
\* Field validation of the recording handlers.

\* !courseId || !sectionId || !chapterId
LessonFieldsMissing(body) ==
    Falsy(body, "courseId") \/ Falsy(body, "sectionId")
        \/ Falsy(body, "chapterId")

QuizFieldsMissing_NoScore(body) ==
    Falsy(body, "quizId") \/ Falsy(body, "courseId")

\* !quizId || !courseId || score === undefined
QuizFieldsMissing(body) ==
    Falsy(body, "quizId") \/ Falsy(body, "courseId") \/ ~Has(body, "score")

\* !courseId || !activityType
DiscussionFieldsMissing(body) ==
    Falsy(body, "courseId") \/ Falsy(body, "activityType")

ActivityTypeInvalid_AcceptsAny(body) == FALSE

\* !validActivityTypes.includes(activityType)
ActivityTypeInvalid(body) == body.activityType \notin ValidActivityTypes

----------------------------------------------------------------------------
\* Synchronous prefix of each handler: from the arrival of the request to its
\* first await (or to the response, when the request is rejected).

getStudentProgress(r, caller, userId) ==
    /\ CanArrive(r)
    /\ LET q == NewReq("getStudentProgress", caller, userId, NoBody)
       IN reqs' = Arrive(r,
                IF Denied(caller, userId) THEN Respond(q, 403, <<>>)
                ELSE IssueGet(q))
    /\ UNCHANGED <<store, clock, catalogVars, categoryVars>>

\* A prefix that validates the body before it compares the identities.
recordLessonAccess_ValidatesFirst(r, caller, userId, body) ==
    /\ CanArrive(r)
    /\ LET q == NewReq("recordLessonAccess", caller, userId, body)
       IN reqs' = Arrive(r,
                IF LessonFieldsMissing(body) THEN Respond(q, 400, <<>>)
                ELSE IF Denied(caller, userId) THEN Respond(q, 403, <<>>)
                ELSE IssueGet(q))
    /\ UNCHANGED <<store, clock, catalogVars, categoryVars>>

recordLessonAccess(r, caller, userId, body) ==
    /\ CanArrive(r)
    /\ LET q == NewReq("recordLessonAccess", caller, userId, body)
       IN reqs' = Arrive(r,
                IF Denied(caller, userId) THEN Respond(q, 403, <<>>)
                ELSE IF LessonFieldsMissing(body) THEN Respond(q, 400, <<>>)
                ELSE IssueGet(q))
    /\ UNCHANGED <<store, clock, catalogVars, categoryVars>>

recordQuizAttempt(r, caller, userId, body) ==
    /\ CanArrive(r)
    /\ LET q == NewReq("recordQuizAttempt", caller, userId, body)
       IN reqs' = Arrive(r,
                IF Denied(caller, userId) THEN Respond(q, 403, <<>>)
                ELSE IF QuizFieldsMissing(body) THEN Respond(q, 400, <<>>)
                ELSE IssueGet(q))
    /\ UNCHANGED <<store, clock, catalogVars, categoryVars>>

recordDiscussionActivity(r, caller, userId, body) ==
    /\ CanArrive(r)
    /\ LET q == NewReq("recordDiscussionActivity", caller, userId, body)
       IN reqs' = Arrive(r,
                IF Denied(caller, userId) THEN Respond(q, 403, <<>>)
                ELSE IF DiscussionFieldsMissing(body) THEN Respond(q, 400, <<>>)
                ELSE IF ActivityTypeInvalid(body) THEN Respond(q, 400, <<>>)
                ELSE IssueGet(q))
    /\ UNCHANGED <<store, clock, catalogVars, categoryVars>>

getStudentStatistics(r, caller, userId) ==
    /\ CanArrive(r)
    /\ LET q == NewReq("getStudentStatistics", caller, userId, NoBody)
       IN reqs' = Arrive(r,
                IF Denied(caller, userId) THEN Respond(q, 403, <<>>)
                ELSE IssueGet(q))
    /\ UNCHANGED <<store, clock, catalogVars, categoryVars>>

----------------------------------------------------------------------------
\* The store answers a pending StudentProgress.get.

StudentProgressGet(r) ==
    /\ reqs[r].pc = "get"
    /\ reqs' = [reqs EXCEPT ![r].pc = "gotten",
                            ![r].fetched = store[reqs[r].userId]]
    /\ UNCHANGED <<store, clock, catalogVars, categoryVars>>

\* A catch block that logs the error and sends nothing.
StudentProgressGetFails_Swallows(r) ==
    /\ reqs[r].pc = "get"
    /\ reqs' = [reqs EXCEPT ![r].pc = "done"]
    /\ UNCHANGED <<store, clock, catalogVars, categoryVars>>

\* The get rejects; the catch block answers 500.
StudentProgressGetFails(r) ==
    /\ reqs[r].pc = "get"
    /\ reqs' = [reqs EXCEPT ![r] = Respond(@, 500, <<>>)]
    /\ UNCHANGED <<store, clock, catalogVars, categoryVars>>

----------------------------------------------------------------------------
\* Continuations after the get has resolved.

IssueSave(q, rec, t) ==
    [q EXCEPT !.pc = "save", !.progress = <<rec>>, !.currentTime = t,
              !.nSave = @ + 1]

\* A continuation that saves the record it fetched before answering.
getStudentProgressAfterGet_AlwaysSaves(r) ==
    /\ reqs[r].pc = "gotten"
    /\ reqs[r].kind = "getStudentProgress"
    /\ reqs' = [reqs EXCEPT ![r] =
            IF @.fetched = <<>>
            THEN IssueSave(@, NewProgress(@.userId, <<>>, <<>>, <<>>, clock),
                           clock)
            ELSE IssueSave(@, @.fetched[1], clock)]
    /\ UNCHANGED <<store, clock, catalogVars, categoryVars>>

getStudentProgressAfterGet(r) ==
    /\ reqs[r].pc = "gotten"
    /\ reqs[r].kind = "getStudentProgress"
    /\ reqs' = [reqs EXCEPT ![r] =
            IF @.fetched = <<>>
            THEN IssueSave(@, NewProgress(@.userId, <<>>, <<>>, <<>>, clock),
                           clock)
            ELSE Respond(@, 200, @.fetched)]
    /\ UNCHANGED <<store, clock, catalogVars, categoryVars>>

recordAfterGet(r) ==
    /\ reqs[r].pc = "gotten"
    /\ reqs[r].kind \in Recorders
    /\ reqs' = [reqs EXCEPT ![r] =
            IssueSave(@, Recorded(@.kind, @.userId, @.fetched, @.body, clock),
                      clock)]
    /\ UNCHANGED <<store, clock, catalogVars, categoryVars>>

\* The statistics object of the 200 answer.

Range(s) == {s[i] : i \in 1..Len(s)}

\* `${access.courseId}:${access.sectionId}:${access.chapterId}`
LessonKey(access) ==
    access.courseId \o ":" \o access.sectionId \o ":" \o access.chapterId

\* reduce((sum, attempt) => sum + attempt.score, 0)
RECURSIVE SumScores(_)
SumScores(attempts) ==
    IF attempts = <<>> THEN 0
    ELSE SumScores(SubSeq(attempts, 1, Len(attempts) - 1))
            + attempts[Len(attempts)].score

RECURSIVE GCD(_, _)
GCD(a, b) == IF b = 0 THEN a ELSE GCD(b, a % b)

\* Integer division in place of the exact quotient.
Quotient_Floor(n, d) == [num |-> n \div d, den |-> 1]

\* The number n / d (d > 0), kept exact as a fraction in lowest terms.
Quotient(n, d) ==
    LET g == GCD(IF n < 0 THEN -n ELSE n, d)
    IN [num |-> n \div g, den |-> d \div g]

\* A count that skips the first activity.
CountType_SkipsFirst(log, type) ==
    Cardinality({i \in 2..Len(log) : log[i].activityType = type})

\* activities.filter((activity) => activity.activityType === type).length
CountType(log, type) ==
    Cardinality({i \in 1..Len(log) : log[i].activityType = type})

\* The values of a sequence in order of first appearance.
RECURSIVE Distinct(_)
Distinct(values) ==
    IF values = <<>> THEN <<>>
    ELSE LET rest == Distinct(SubSeq(values, 1, Len(values) - 1))
             v == values[Len(values)]
         IN IF v \in Range(rest) THEN rest ELSE Append(rest, v)

\* Property names that are array indices, in ascending numeric order.
IntegerKeys == <<"0", "1", "2", "3">>

\* Object.entries(frequency): integer keys in ascending order first, then the
\* other keys in order of insertion.
OwnKeys(values) ==
    SelectSeq(IntegerKeys, LAMBDA k : k \in Range(values))
        \o SelectSeq(Distinct(values), LAMBDA k : k \notin Range(IntegerKeys))

\* A sort that reverses entries of equal count.
SortByCountDesc_ReversesTies(entries) ==
    LET n == Len(entries)
        rank(i) ==
            1 + Cardinality({j \in 1..n : entries[j].count > entries[i].count})
              + Cardinality({j \in (i + 1)..n :
                                entries[j].count = entries[i].count})
    IN [p \in 1..n |-> entries[CHOOSE i \in 1..n : rank(i) = p]]

\* sort((a, b) => b.count - a.count): stable, descending by count.
SortByCountDesc(entries) ==
    LET n == Len(entries)
        rank(i) ==
            1 + Cardinality({j \in 1..n : entries[j].count > entries[i].count})
              + Cardinality({j \in 1..(i - 1) :
                                entries[j].count = entries[i].count})
    IN [p \in 1..n |-> entries[CHOOSE i \in 1..n : rank(i) = p]]

\* The entries cut to the limit before they are sorted.
getTopItems_SlicesFirst(array, key, limit) ==
    LET values == [i \in 1..Len(array) |-> array[i][key]]
        keys == OwnKeys(values)
        entries ==
            [i \in 1..Len(keys) |->
                [value |-> keys[i],
                 count |-> Cardinality({j \in 1..Len(values) :
                                           values[j] = keys[i]})]]
    IN SortByCountDesc(
          SubSeq(entries, 1, IF Len(entries) < limit THEN Len(entries)
                             ELSE limit))

getTopItems(array, key, limit) ==
    LET values == [i \in 1..Len(array) |-> array[i][key]]
        keys == OwnKeys(values)
        entries ==
            [i \in 1..Len(keys) |->
                [value |-> keys[i],
                 count |-> Cardinality({j \in 1..Len(values) :
                                           values[j] = keys[i]})]]
        sorted == SortByCountDesc(entries)
    IN SubSeq(sorted, 1, IF Len(sorted) < limit THEN Len(sorted) ELSE limit)

TopLimit == 5

Statistics(p) ==
    [totalLessonsAccessed |-> Len(p.lessonAccessHistory),
     uniqueLessonsAccessed |->
        Cardinality({LessonKey(a) : a \in Range(p.lessonAccessHistory)}),
     totalQuizAttempts |-> Len(p.quizAttempts),
     uniqueQuizAttempts |->
        Cardinality({a.quizId : a \in Range(p.quizAttempts)}),
     averageQuizScore |->
        IF Len(p.quizAttempts) > 0
        THEN Quotient(SumScores(p.quizAttempts), Len(p.quizAttempts))
        ELSE Quotient(0, 1),
     totalDiscussionActivities |-> Len(p.discussionActivities),
     discussionBreakdown |->
        [comments |-> CountType(p.discussionActivities, "Comment"),
         replies |-> CountType(p.discussionActivities, "Reply"),
         reactions |-> CountType(p.discussionActivities, "Reaction")],
     mostAccessedCourses |->
        getTopItems(p.lessonAccessHistory, "courseId", TopLimit),
     lastActive |-> p.lastActive]

getStudentStatisticsAfterGet_LazilyCreates(r) ==
    /\ reqs[r].pc = "gotten"
    /\ reqs[r].kind = "getStudentStatistics"
    /\ reqs' = [reqs EXCEPT ![r] =
            IF @.fetched = <<>>
            THEN IssueSave(@, NewProgress(@.userId, <<>>, <<>>, <<>>, clock),
                           clock)
            ELSE Respond(@, 200, <<Statistics(@.fetched[1])>>)]
    /\ UNCHANGED <<store, clock, catalogVars, categoryVars>>

\* A continuation that reads the table again instead of using its own fetch.
getStudentStatisticsAfterGet_ReadsAgain(r) ==
    /\ reqs[r].pc = "gotten"
    /\ reqs[r].kind = "getStudentStatistics"
    /\ reqs' = [reqs EXCEPT ![r] =
            IF store[@.userId] = <<>>
            THEN Respond(@, 404, <<>>)
            ELSE Respond(@, 200, <<Statistics(store[@.userId][1])>>)]
    /\ UNCHANGED <<store, clock, catalogVars, categoryVars>>

getStudentStatisticsAfterGet(r) ==
    /\ reqs[r].pc = "gotten"
    /\ reqs[r].kind = "getStudentStatistics"
    /\ reqs' = [reqs EXCEPT ![r] =
            IF @.fetched = <<>>
            THEN Respond(@, 404, <<>>)
            ELSE Respond(@, 200, <<Statistics(@.fetched[1])>>)]
    /\ UNCHANGED <<store, clock, catalogVars, categoryVars>>

----------------------------------------------------------------------------
\* The store answers a pending save: the whole item is put under its userId.

\* A put that is refused when the stored item holds more events.
PutItem_KeepsLonger(st, rec) ==
    IF TotalEvents(st[rec.userId]) > TotalEvents(<<rec>>)
    THEN st
    ELSE [st EXCEPT ![rec.userId] = <<rec>>]

\* A put that files every item under one key.
PutItem_OneKey(st, rec) == [st EXCEPT !["u1"] = <<rec>>]

PutItem(st, rec) == [st EXCEPT ![rec.userId] = <<rec>>]

ProgressSave(r) ==
    /\ reqs[r].pc = "save"
    /\ store' = PutItem(store, reqs[r].progress[1])
    /\ reqs' = [reqs EXCEPT ![r] = Respond(@, 200, @.progress)]
    /\ UNCHANGED <<clock, catalogVars, categoryVars>>

\* Variants of a rejected save: the handler saves again, and the item is left
\* deleted.
ProgressSaveFails_Retries(r) ==
    /\ reqs[r].pc = "save"
    /\ reqs[r].nSave < 2
    /\ reqs' = [reqs EXCEPT ![r].nSave = @ + 1]
    /\ UNCHANGED <<store, clock, catalogVars, categoryVars>>

ProgressSaveFails_Deletes(r) ==
    /\ reqs[r].pc = "save"
    /\ store' = [store EXCEPT ![reqs[r].userId] = <<>>]
    /\ reqs' = [reqs EXCEPT ![r] = Respond(@, 500, <<>>)]
    /\ UNCHANGED <<clock, catalogVars, categoryVars>>

\* The save rejects; nothing is written and the catch block answers 500.
ProgressSaveFails(r) ==
    /\ reqs[r].pc = "save"
    /\ reqs' = [reqs EXCEPT ![r] = Respond(@, 500, <<>>)]
    /\ UNCHANGED <<store, clock, catalogVars, categoryVars>>

\* A clock that can also step back.
Tick_StepsBack ==
    /\ \/ clock < MaxClock /\ clock' = clock + 1
       \/ clock > 0 /\ clock' = clock - 1
    /\ UNCHANGED <<store, reqs, catalogVars, categoryVars>>

\* Time passes.
Tick ==
    /\ clock < MaxClock
    /\ clock' = clock + 1
    /\ UNCHANGED <<store, reqs, catalogVars, categoryVars>>

Next ==
    \/ \E r \in Reqs, c \in Callers, u \in UserIds : getStudentProgress(r, c, u)
    \/ \E r \in Reqs, c \in Callers, u \in UserIds, b \in LessonBodies :
            recordLessonAccess(r, c, u, b)
    \/ \E r \in Reqs, c \in Callers, u \in UserIds, b \in QuizBodies :
            recordQuizAttempt(r, c, u, b)
    \/ \E r \in Reqs, c \in Callers, u \in UserIds, b \in DiscussionBodies :
            recordDiscussionActivity(r, c, u, b)
    \/ \E r \in Reqs, c \in Callers, u \in UserIds : getStudentStatistics(r, c, u)
    \/ \E r \in Reqs : StudentProgressGet(r)
    \/ \E r \in Reqs : StudentProgressGetFails(r)
    \/ \E r \in Reqs : getStudentProgressAfterGet(r)
    \/ \E r \in Reqs : recordAfterGet(r)
    \/ \E r \in Reqs : getStudentStatisticsAfterGet(r)
    \/ \E r \in Reqs : ProgressSave(r)
    \/ \E r \in Reqs : ProgressSaveFails(r)
    \/ Tick

Spec == Init /\ [][Next]_vars

\* The progress handlers when every store call eventually returns or fails
\* and every continuation is eventually run.
StoreCallEnds(r) ==
    \/ StudentProgressGet(r)
    \/ StudentProgressGetFails(r)
    \/ ProgressSave(r)
    \/ ProgressSaveFails(r)

ContinuationRuns(r) ==
    \/ getStudentProgressAfterGet(r)
    \/ recordAfterGet(r)
    \/ getStudentStatisticsAfterGet(r)

SpecLive ==
    /\ Init
    /\ [][Next]_vars
    /\ \A r \in Reqs : WF_vars(StoreCallEnds(r))
    /\ \A r \in Reqs : WF_vars(ContinuationRuns(r))

----------------------------------------------------------------------------
\* Course and quiz handlers (courseController.ts, quizController.ts).

progressVars == <<store, reqs, clock>>

\* Object.assign(target, source): the fields of source overwrite the target's.
Assign(target, source) ==
    [f \in (DOMAIN target \cup DOMAIN source) |->
        IF f \in DOMAIN source THEN source[f] ELSE target[f]]

\* options.map((option) => ({ ...option, id: option.id || uuidv4() }))
ProcessOptions(options, uuid) ==
    [i \in 1..Len(options) |->
        IF Falsy(options[i], "id") THEN Assign(options[i], [id |-> uuid])
        ELSE options[i]]

\* questions.map((question) => ({ ...question,
\*     questionId: question.questionId || uuidv4(), options: ...map(...) }))
ProcessQuestions(questions, uuid) ==
    [i \in 1..Len(questions) |->
        LET qn == questions[i]
            withId == IF Falsy(qn, "questionId")
                      THEN Assign(qn, [questionId |-> uuid]) ELSE qn
        IN IF Has(qn, "options")
           THEN Assign(withId, [options |-> ProcessOptions(qn.options, uuid)])
           ELSE withId]

\* quiz.questions.findIndex((q) => q.questionId === questionId); 0 stands
\* for -1.
FindIndex(questions, questionId) ==
    IF \E i \in 1..Len(questions) : questions[i].questionId = questionId
    THEN CHOOSE i \in 1..Len(questions) :
            /\ questions[i].questionId = questionId
            /\ \A j \in 1..(i - 1) : questions[j].questionId # questionId
    ELSE 0

\* questions.splice(index, 1)
Splice(questions, index) ==
    SubSeq(questions, 1, index - 1) \o SubSeq(questions, index + 1, Len(questions))

\* await item.save()
IssueCallSave(q, item) == [q EXCEPT !.pc = "save", !.item = <<item>>]

\* await Model.delete(id)
IssueCallDelete(q) == [q EXCEPT !.pc = "delete"]

\* new Course({...})
NewCourse(courseId, body) ==
    [courseId |-> courseId, teacherId |-> body.teacherId,
     teacherName |-> body.teacherName, title |-> "Untitled Course"]

\* new Quiz({...})
NewQuiz(quizId, body) ==
    [quizId |-> quizId, courseId |-> body.courseId, title |-> body.title,
     questions |-> <<>>]

\* The question object addQuestion pushes.
NewQuestion(questionId, body) ==
    [questionId |-> questionId, text |-> body.text, type |-> body.type,
     options |-> IF Has(body, "options")
                 THEN ProcessOptions(body.options, questionId) ELSE <<>>]

createCourse(k, caller, body, uuid) ==
    /\ CallCanArrive(k)
    /\ FreshCourseId(uuid)
    /\ LET q == NewCall("createCourse", caller, "none", "none", body, uuid)
       IN calls' = [calls EXCEPT ![k] =
            IF Falsy(body, "teacherId") \/ Falsy(body, "teacherName")
            THEN Answer(q, 400)
            ELSE IssueCallSave(q, NewCourse(uuid, body))]
    /\ UNCHANGED <<progressVars, categoryVars, courseTable, quizTable>>

\* Handlers whose first await is Course.get.
updateCourse(k, caller, courseId, body) ==
    /\ CallCanArrive(k)
    /\ calls' = [calls EXCEPT ![k] =
            [NewCall("updateCourse", caller, courseId, "none", body, "none")
                EXCEPT !.pc = "courseGet"]]
    /\ UNCHANGED <<progressVars, categoryVars, courseTable, quizTable>>

deleteCourse(k, caller, courseId) ==
    /\ CallCanArrive(k)
    /\ calls' = [calls EXCEPT ![k] =
            [NewCall("deleteCourse", caller, courseId, "none", NoBody, "none")
                EXCEPT !.pc = "courseGet"]]
    /\ UNCHANGED <<progressVars, categoryVars, courseTable, quizTable>>

createQuiz(k, caller, body, uuid) ==
    /\ CallCanArrive(k)
    /\ FreshQuizId(uuid)
    /\ LET q == NewCall("createQuiz", caller, "none", "none", body, uuid)
       IN calls' = [calls EXCEPT ![k] =
            IF Falsy(body, "courseId") \/ Falsy(body, "title")
            THEN Answer(q, 400)
            ELSE [q EXCEPT !.pc = "courseGet"]]
    /\ UNCHANGED <<progressVars, categoryVars, courseTable, quizTable>>

\* Handlers whose first await is Quiz.get.
updateQuiz(k, caller, quizId, body) ==
    /\ CallCanArrive(k)
    /\ calls' = [calls EXCEPT ![k] =
            [NewCall("updateQuiz", caller, quizId, "none", body, "none")
                EXCEPT !.pc = "quizGet"]]
    /\ UNCHANGED <<progressVars, categoryVars, courseTable, quizTable>>

deleteQuiz(k, caller, quizId) ==
    /\ CallCanArrive(k)
    /\ calls' = [calls EXCEPT ![k] =
            [NewCall("deleteQuiz", caller, quizId, "none", NoBody, "none")
                EXCEPT !.pc = "quizGet"]]
    /\ UNCHANGED <<progressVars, categoryVars, courseTable, quizTable>>

addQuestion(k, caller, quizId, body, uuid) ==
    /\ CallCanArrive(k)
    /\ FreshQuestionId(uuid)
    /\ calls' = [calls EXCEPT ![k] =
            [NewCall("addQuestion", caller, quizId, "none", body, uuid)
                EXCEPT !.pc = "quizGet"]]
    /\ UNCHANGED <<progressVars, categoryVars, courseTable, quizTable>>

updateQuestion(k, caller, quizId, questionId, body) ==
    /\ CallCanArrive(k)
    /\ calls' = [calls EXCEPT ![k] =
            [NewCall("updateQuestion", caller, quizId, questionId, body, "none")
                EXCEPT !.pc = "quizGet"]]
    /\ UNCHANGED <<progressVars, categoryVars, courseTable, quizTable>>

deleteQuestion(k, caller, quizId, questionId) ==
    /\ CallCanArrive(k)
    /\ calls' = [calls EXCEPT ![k] =
            [NewCall("deleteQuestion", caller, quizId, questionId, NoBody,
                     "none") EXCEPT !.pc = "quizGet"]]
    /\ UNCHANGED <<progressVars, categoryVars, courseTable, quizTable>>

\* Quiz.get resolves: 404 when there is no quiz, else Course.get is issued.
QuizGet(k) ==
    /\ calls[k].pc = "quizGet"
    /\ LET q == calls[k]
       IN calls' = [calls EXCEPT ![k] =
            IF quizTable[q.id] = <<>> THEN Answer(q, 404)
            ELSE [q EXCEPT !.pc = "courseGet", !.quiz = quizTable[q.id]]]
    /\ UNCHANGED <<progressVars, categoryVars, courseTable, quizTable>>

\* The id the handler passes to Course.get.
CourseIdOf(q) ==
    IF q.kind \in {"updateCourse", "deleteCourse"} THEN q.id
    ELSE IF q.kind = "createQuiz" THEN q.body.courseId
    ELSE q.quiz[1].courseId

\* The handler from the owner check on, for a request q that holds the
\* course its Course.get returned, up to its next await or its response.
AfterOwnerCheck(q) ==
    LET quiz == q.quiz[1]
        index == FindIndex(quiz.questions, q.questionId)
    IN CASE q.kind = "updateCourse" ->
                IssueCallSave(q, Assign(q.course[1], q.body))
         [] q.kind = "deleteCourse" -> IssueCallDelete(q)
         [] q.kind = "createQuiz" -> IssueCallSave(q, NewQuiz(q.uuid, q.body))
         [] q.kind = "updateQuiz" ->
                IssueCallSave(q, Assign(quiz,
                    IF Has(q.body, "questions")
                    THEN Assign(q.body,
                            [questions |->
                                ProcessQuestions(q.body.questions, "k1")])
                    ELSE q.body))
         [] q.kind = "deleteQuiz" -> IssueCallDelete(q)
         [] q.kind = "addQuestion" ->
                IF Falsy(q.body, "text") \/ Falsy(q.body, "type")
                THEN Answer(q, 400)
                ELSE IF /\ q.body.type = "MultipleChoice"
                        /\ (~Has(q.body, "options") \/ Len(q.body.options) < 2)
                THEN Answer(q, 400)
                ELSE IssueCallSave(q,
                        [quiz EXCEPT !.questions =
                            Append(@, NewQuestion(q.uuid, q.body))])
         [] q.kind = "updateQuestion" ->
                IF index = 0 THEN Answer(q, 404)
                ELSE IssueCallSave(q,
                        [quiz EXCEPT !.questions[index] =
                            Assign(@,
                                IF Has(q.body, "options")
                                THEN Assign(q.body,
                                        [options |->
                                            ProcessOptions(q.body.options, "o9")])
                                ELSE q.body)])
         [] q.kind = "deleteQuestion" ->
                IF index = 0 THEN Answer(q, 404)
                ELSE IssueCallSave(q,
                        [quiz EXCEPT !.questions = Splice(@, index)])

\* A continuation in which deleteQuiz does not compare the owner.
AfterCourseGet_DeleteQuizUnchecked(q, fetched) ==
    IF fetched = <<>> THEN Answer(q, 404)
    ELSE IF fetched[1].teacherId # q.caller /\ q.kind # "deleteQuiz"
    THEN Answer([q EXCEPT !.course = fetched], 403)
    ELSE AfterOwnerCheck([q EXCEPT !.course = fetched])

\* if (!course) 404; if (course.teacherId !== userId) 403; else the handler
\* goes on.
AfterCourseGet(q, fetched) ==
    IF fetched = <<>> THEN Answer(q, 404)
    ELSE IF fetched[1].teacherId # q.caller
    THEN Answer([q EXCEPT !.course = fetched], 403)
    ELSE AfterOwnerCheck([q EXCEPT !.course = fetched])

\* Course.get resolves and the handler runs to its next await or response.
CourseGet(k) ==
    /\ calls[k].pc = "courseGet"
    /\ calls' = [calls EXCEPT ![k] =
            AfterCourseGet(@, courseTable[CourseIdOf(@)])]
    /\ UNCHANGED <<progressVars, categoryVars, courseTable, quizTable>>

\* save() resolves: the item is put under its own key, and the handler
\* answers (201 from createQuiz and addQuestion, 200 otherwise).
CallSave(k) ==
    /\ calls[k].pc = "save"
    /\ LET item == calls[k].item[1]
       IN IF calls[k].kind \in CourseKinds
          THEN /\ courseTable' = [courseTable EXCEPT ![item.courseId] = <<item>>]
               /\ UNCHANGED quizTable
          ELSE /\ quizTable' = [quizTable EXCEPT ![item.quizId] = <<item>>]
               /\ UNCHANGED courseTable
    /\ calls' = [calls EXCEPT ![k] =
            Answer(@, IF @.kind \in {"createQuiz", "addQuestion"} THEN 201
                      ELSE 200)]
    /\ UNCHANGED <<progressVars, categoryVars>>

\* Course.delete(courseId) or Quiz.delete(quizId) resolves.
CallDelete(k) ==
    /\ calls[k].pc = "delete"
    /\ IF calls[k].kind \in CourseKinds
       THEN /\ courseTable' = [courseTable EXCEPT ![calls[k].id] = <<>>]
            /\ UNCHANGED quizTable
       ELSE /\ quizTable' = [quizTable EXCEPT ![calls[k].id] = <<>>]
            /\ UNCHANGED courseTable
    /\ calls' = [calls EXCEPT ![k] = Answer(@, 200)]
    /\ UNCHANGED <<progressVars, categoryVars>>

\* A pending store call rejects; the catch block answers 500.
CallFails(k) ==
    /\ Pending(calls[k])
    /\ calls' = [calls EXCEPT ![k] = Answer(@, 500)]
    /\ UNCHANGED <<progressVars, categoryVars, courseTable, quizTable>>

CatalogNext ==
    \/ \E k \in Calls, t \in Teachers, b \in CourseBodies, id \in CourseUuids :
            createCourse(k, t, b, id)
    \/ \E k \in Calls, t \in Teachers, c \in CourseIds, b \in CourseUpdates :
            updateCourse(k, t, c, b)
    \/ \E k \in Calls, t \in Teachers, c \in CourseIds : deleteCourse(k, t, c)
    \/ \E k \in Calls, t \in Teachers, b \in NewQuizBodies, id \in QuizUuids :
            createQuiz(k, t, b, id)
    \/ \E k \in Calls, t \in Teachers, q \in QuizIds, b \in QuizUpdates :
            updateQuiz(k, t, q, b)
    \/ \E k \in Calls, t \in Teachers, q \in QuizIds : deleteQuiz(k, t, q)
    \/ \E k \in Calls, t \in Teachers, q \in QuizIds, b \in QuestionBodies,
          id \in QuestionUuids : addQuestion(k, t, q, b, id)
    \/ \E k \in Calls, t \in Teachers, q \in QuizIds, n \in QuestionIds,
          b \in QuestionUpdates : updateQuestion(k, t, q, n, b)
    \/ \E k \in Calls, t \in Teachers, q \in QuizIds, n \in QuestionIds :
            deleteQuestion(k, t, q, n)
    \/ \E k \in Calls : QuizGet(k)
    \/ \E k \in Calls : CourseGet(k)
    \/ \E k \in Calls : CallSave(k)
    \/ \E k \in Calls : CallDelete(k)
    \/ \E k \in Calls : CallFails(k)

\* The tables as earlier requests of teacher t1 have left them: nothing yet,
\* a course, a course with a quiz, a course with a quiz of one question.
StartCourse == NewCourse("c1", [teacherId |-> "t1", teacherName |-> "Ann"])

StartQuiz == NewQuiz("q1", [courseId |-> "c1", title |-> "Quiz"])

StartQuestion ==
    NewQuestion("k1",
        [text |-> "Which?", type |-> "MultipleChoice",
         options |-> << [id |-> "o1", text |-> "a"],
                        [id |-> "o2", text |-> "b"] >>])

CatalogStarts ==
    { [course |-> <<>>, quiz |-> <<>>],
      [course |-> <<StartCourse>>, quiz |-> <<>>],
      [course |-> <<StartCourse>>, quiz |-> <<StartQuiz>>],
      [course |-> <<StartCourse>>,
       quiz |-> <<[StartQuiz EXCEPT !.questions = <<StartQuestion>>]>>] }

CatalogStart ==
    /\ store = [u \in UserIds |-> <<>>]
    /\ reqs = [r \in Reqs |-> IdleReq]
    /\ clock = 0
    /\ calls = [k \in Calls |-> IdleCall]
    /\ CategoryInit
    /\ \E t \in CatalogStarts :
          /\ courseTable = [c \in CourseIds |-> IF c = "c1" THEN t.course ELSE <<>>]
          /\ quizTable = [q \in QuizIds |-> IF q = "q1" THEN t.quiz ELSE <<>>]

SpecCatalog == CatalogStart /\ [][CatalogNext]_vars

----------------------------------------------------------------------------
\* Category handlers (categoryController.ts).

\* new Category({...})
NewCategory(categoryId, body) ==
    [categoryId |-> categoryId, name |-> body.name,
     description |-> IF Falsy(body, "description") THEN ""
                     ELSE body.description,
     slug |-> body.slug,
     isActive |-> IF Has(body, "isActive") THEN body.isActive ELSE TRUE,
     order |-> IF Falsy(body, "order") THEN 0 ELSE body.order]

\* (await Category.scan("slug").eq(slug).exec()).count
SlugCount(table, slug) ==
    Cardinality({g \in DOMAIN table :
                    table[g] # <<>> /\ table[g][1].slug = slug})

createCategory(k, body, uuid) ==
    /\ CategoryCallCanArrive(k)
    /\ FreshCategoryId(uuid)
    /\ categoryCalls' = [categoryCalls EXCEPT ![k] =
            [IdleCategoryCall EXCEPT
                !.kind = "createCategory", !.body = body, !.uuid = uuid,
                !.pc = IF Falsy(body, "name") \/ Falsy(body, "slug")
                       THEN "done" ELSE "scan",
                !.status = IF Falsy(body, "name") \/ Falsy(body, "slug")
                           THEN 400 ELSE 0]]
    /\ UNCHANGED <<progressVars, catalogVars, categoryTable>>

updateCategory(k, categoryId, body) ==
    /\ CategoryCallCanArrive(k)
    /\ categoryCalls' = [categoryCalls EXCEPT ![k] =
            [IdleCategoryCall EXCEPT
                !.kind = "updateCategory", !.id = categoryId, !.body = body,
                !.pc = "get"]]
    /\ UNCHANGED <<progressVars, catalogVars, categoryTable>>

deleteCategory(k, categoryId) ==
    /\ CategoryCallCanArrive(k)
    /\ categoryCalls' = [categoryCalls EXCEPT ![k] =
            [IdleCategoryCall EXCEPT
                !.kind = "deleteCategory", !.id = categoryId, !.pc = "get"]]
    /\ UNCHANGED <<progressVars, catalogVars, categoryTable>>

\* Category.get resolves: 404 when there is no category; updateCategory then
\* scans for the new slug or, the slug staying, assigns and saves;
\* deleteCategory issues the delete.
CategoryGet(k) ==
    /\ categoryCalls[k].pc = "get"
    /\ LET q == categoryCalls[k]
           fetched == categoryTable[q.id]
       IN categoryCalls' = [categoryCalls EXCEPT ![k] =
            IF fetched = <<>> THEN [q EXCEPT !.pc = "done", !.status = 404]
            ELSE IF q.kind = "deleteCategory"
            THEN [q EXCEPT !.pc = "delete", !.category = fetched]
            ELSE IF ~Falsy(q.body, "slug") /\ q.body.slug # fetched[1].slug
            THEN [q EXCEPT !.pc = "scan", !.category = fetched]
            ELSE [q EXCEPT !.pc = "save", !.category = fetched,
                           !.item = <<Assign(fetched[1], q.body)>>]]
    /\ UNCHANGED <<progressVars, catalogVars, categoryTable>>

\* The scan for the slug resolves: 400 when a category has it, else the
\* handler builds its item and saves.
CategoryScan(k) ==
    /\ categoryCalls[k].pc = "scan"
    /\ LET q == categoryCalls[k]
       IN categoryCalls' = [categoryCalls EXCEPT ![k] =
            IF SlugCount(categoryTable, q.body.slug) > 0
            THEN [q EXCEPT !.pc = "done", !.status = 400]
            ELSE [q EXCEPT !.pc = "save",
                    !.item = IF q.kind = "createCategory"
                             THEN <<NewCategory(q.uuid, q.body)>>
                             ELSE <<Assign(q.category[1], q.body)>>]]
    /\ UNCHANGED <<progressVars, catalogVars, categoryTable>>

\* save() resolves: the item is put under its categoryId.
CategorySave(k) ==
    /\ categoryCalls[k].pc = "save"
    /\ LET item == categoryCalls[k].item[1]
       IN categoryTable' = [categoryTable EXCEPT ![item.categoryId] = <<item>>]
    /\ categoryCalls' = [categoryCalls EXCEPT ![k] =
            [@ EXCEPT !.pc = "done",
                      !.status = IF categoryCalls[k].kind = "createCategory"
                                 THEN 201 ELSE 200]]
    /\ UNCHANGED <<progressVars, catalogVars>>

\* Category.delete(categoryId) resolves.
CategoryDelete(k) ==
    /\ categoryCalls[k].pc = "delete"
    /\ categoryTable' = [categoryTable EXCEPT ![categoryCalls[k].id] = <<>>]
    /\ categoryCalls' = [categoryCalls EXCEPT ![k] =
            [@ EXCEPT !.pc = "done", !.status = 200]]
    /\ UNCHANGED <<progressVars, catalogVars>>

\* A pending store call rejects; the catch block answers 500.
CategoryCallFails(k) ==
    /\ CategoryPending(categoryCalls[k])
    /\ categoryCalls' = [categoryCalls EXCEPT ![k] =
            [@ EXCEPT !.pc = "done", !.status = 500]]
    /\ UNCHANGED <<progressVars, catalogVars, categoryTable>>

CategoryNext ==
    \/ \E k \in CategoryCalls, b \in CategoryBodies, id \in CategoryIds :
            createCategory(k, b, id)
    \/ \E k \in CategoryCalls, g \in CategoryIds, b \in CategoryUpdates :
            updateCategory(k, g, b)
    \/ \E k \in CategoryCalls, g \in CategoryIds : deleteCategory(k, g)
    \/ \E k \in CategoryCalls : CategoryGet(k)
    \/ \E k \in CategoryCalls : CategoryScan(k)
    \/ \E k \in CategoryCalls : CategorySave(k)
    \/ \E k \in CategoryCalls : CategoryDelete(k)
    \/ \E k \in CategoryCalls : CategoryCallFails(k)

\* The table as earlier requests have left it: nothing yet, one category, two
\* categories of different slugs.
CategoryStarts ==
    { [g \in CategoryIds |-> <<>>],
      [g \in CategoryIds |->
          IF g = "g1"
          THEN <<NewCategory("g1", [name |-> "Math", slug |-> "math"])>>
          ELSE <<>>],
      [g \in CategoryIds |->
          IF g = "g1"
          THEN <<NewCategory("g1", [name |-> "Math", slug |-> "math"])>>
          ELSE <<NewCategory("g2", [name |-> "Art", slug |-> "art"])>>] }

CategoryStart ==
    /\ store = [u \in UserIds |-> <<>>]
    /\ reqs = [r \in Reqs |-> IdleReq]
    /\ clock = 0
    /\ calls = [k \in Calls |-> IdleCall]
    /\ courseTable = [c \in CourseIds |-> <<>>]
    /\ quizTable = [z \in QuizIds |-> <<>>]
    /\ categoryCalls = [k \in CategoryCalls |-> IdleCategoryCall]
    /\ categoryTable \in CategoryStarts

SpecCategories == CategoryStart /\ [][CategoryNext]_vars

----------------------------------------------------------------------------
\* Statistics over stored records.  The table starts with a record that earlier
\* recordings have left for u1 (events of one kind, all stamped at time 0), and
\* the statistics route is then called on it.

MaxLog == 3

\* Sequences over S of length 1..n.
SeqsUpTo(S, n) == UNION {[1..k -> S] : k \in 1..n}

StatsLesson(c, sec, ch) ==
    [courseId |-> c, sectionId |-> sec, chapterId |-> ch, accessTimestamp |-> 0]

\* Course ids of short logs, among them ids that read as integers.
TieCourseIds == {"B", "A", "2", "1"}

\* Course ids of long logs, in their order of first appearance.
CutCourseIds == <<"A", "B", "C", "D", "E", "1">>

\* The log in which CutCourseIds[i] occurs n[i] times, id after id.
RECURSIVE Repeated(_, _)
Repeated(n, i) ==
    IF i = 0 THEN <<>>
    ELSE Repeated(n, i - 1)
            \o [k \in 1..n[i] |-> StatsLesson(CutCourseIds[i], "s1", "ch1")]

\* (courseId, sectionId, chapterId) of lessons whose ids contain a colon.
ColonLessons ==
    { StatsLesson("a", "b", "c"), StatsLesson("a", "b", "d"),
      StatsLesson("a:b", "c", "d"), StatsLesson("a", "b:c", "d") }

StatsLessonLogs ==
    {[i \in 1..Len(cs) |-> StatsLesson(cs[i], "s1", "ch1")] :
        cs \in SeqsUpTo(TieCourseIds, MaxLog)}
    \cup {Repeated(n, Len(CutCourseIds)) :
            n \in [1..Len(CutCourseIds) -> 1..2]}
    \cup SeqsUpTo(ColonLessons, MaxLog)

StatsQuizLogs ==
    SeqsUpTo({[quizId |-> "q1", courseId |-> "c1", score |-> sc,
               attemptTimestamp |-> 0, completed |-> TRUE] :
                 sc \in {0, 80, 90, 100}}, MaxLog)

StatsDiscussionLogs ==
    SeqsUpTo({[courseId |-> "c1", activityType |-> t, timestamp |-> 0] :
                 t \in ValidActivityTypes}, MaxLog)

StatsRecords ==
    {NewProgress("u1", l, <<>>, <<>>, 0) : l \in StatsLessonLogs}
    \cup {NewProgress("u1", <<>>, q, <<>>, 0) : q \in StatsQuizLogs}
    \cup {NewProgress("u1", <<>>, <<>>, d, 0) : d \in StatsDiscussionLogs}
    \cup {NewProgress("u1", <<>>, <<>>, <<>>, 0)}

StatsInit ==
    /\ \E rec \in StatsRecords :
          store = [u \in UserIds |-> IF u = "u1" THEN <<rec>> ELSE <<>>]
    /\ reqs = [r \in Reqs |-> IdleReq]
    /\ clock = 0
    /\ CatalogInit
    /\ CategoryInit

StatsNext ==
    \/ \E r \in Reqs, c \in Callers, u \in UserIds : getStudentStatistics(r, c, u)
    \/ \E r \in Reqs : StudentProgressGet(r)
    \/ \E r \in Reqs : StudentProgressGetFails(r)
    \/ \E r \in Reqs : getStudentStatisticsAfterGet(r)

SpecStats == StatsInit /\ [][StatsNext]_vars

----------------------------------------------------------------------------
\* Vocabulary of the properties.

Logs == {"lessonAccessHistory", "quizAttempts", "discussionActivities"}

IsPrefix(a, b) == Len(a) <= Len(b) /\ SubSeq(b, 1, Len(a)) = a

TimestampField(kind) ==
    CASE kind = "recordLessonAccess" -> "accessTimestamp"
      [] kind = "recordQuizAttempt" -> "attemptTimestamp"
      [] kind = "recordDiscussionActivity" -> "timestamp"

RequiredFields(kind) ==
    CASE kind = "recordLessonAccess" -> {"courseId", "sectionId", "chapterId"}
      [] kind = "recordQuizAttempt" -> {"quizId", "courseId", "score"}
      [] kind = "recordDiscussionActivity" -> {"courseId", "activityType"}

\* The step in which the save of request r succeeds.
SavedBy(r) ==
    /\ reqs[r].pc = "save"
    /\ reqs'[r].pc = "done"
    /\ reqs'[r].status = 200

\* Event e carries the fields submitted in body b and the timestamp t.
Carries(e, kind, b, t) ==
    /\ \A f \in DOMAIN b : f \in DOMAIN e /\ e[f] = b[f]
    /\ e[TimestampField(kind)] = t

Authorized(q) == q.caller # NoAuth /\ q.caller = q.userId

----------------------------------------------------------------------------
\* C1: a recording request that no other request for the same userId overlaps
\* and whose save succeeds leaves the stored target log equal to the prior
\* target log plus exactly one element at the end, and that element carries
\* the submitted fields and the timestamp the server read for the request.
C1_AppendsExactlyOne ==
    [][\A r \in Reqs :
        (SavedBy(r) /\ reqs[r].kind \in Recorders /\ ~reqs[r].overlap) =>
            LET u == reqs[r].userId
                log == TargetLog(reqs[r].kind)
                prior == LogOf(store[u], log)
                after == LogOf(store'[u], log)
            IN /\ store'[u] # <<>>
               /\ Len(after) = Len(prior) + 1
               /\ SubSeq(after, 1, Len(prior)) = prior
               /\ Carries(after[Len(after)], reqs[r].kind, reqs[r].body,
                          reqs[r].currentTime)
               /\ reqs[r].currentTime <= clock]_vars

\* A recording that nothing overlapped has appended to a record that already
\* held an event of the same kind, and the store holds what it answered.
C1_Witness ==
    \E r \in Reqs :
        /\ reqs[r].pc = "done" /\ reqs[r].status = 200
        /\ reqs[r].kind \in Recorders /\ ~reqs[r].overlap
        /\ Len(LogOf(reqs[r].fetched, TargetLog(reqs[r].kind))) >= 1
        /\ store[reqs[r].userId] = reqs[r].data
        /\ Len(LogOf(reqs[r].data, TargetLog(reqs[r].kind))) >= 2

----------------------------------------------------------------------------
\* C2 as stated: across every change of the store, under any interleaving,
\* each previous log is a prefix of the new log.
C2_LogsOnlyGrowAlways ==
    [][\A u \in UserIds : \A log \in Logs :
        IsPrefix(LogOf(store[u], log), LogOf(store'[u], log))]_vars

\* C2 amended: every change of the store made by a request that no other
\* request for the same userId overlaps keeps each previous log of that user
\* as a prefix of the new log, and changes no other user's record.
C2_LogsOnlyGrowUnoverlapped ==
    [][\A r \in Reqs :
        (SavedBy(r) /\ ~reqs[r].overlap) =>
            \A u \in UserIds : \A log \in Logs :
                /\ IsPrefix(LogOf(store[u], log), LogOf(store'[u], log))
                /\ u # reqs[r].userId => store'[u] = store[u]]_vars

\* An unoverlapped request has saved over a record that held events in a log
\* it does not append to.
C2_Witness ==
    \E r \in Reqs :
        /\ reqs[r].pc = "done" /\ reqs[r].status = 200
        /\ reqs[r].kind \in Recorders /\ ~reqs[r].overlap
        /\ \E log \in Logs \ {TargetLog(reqs[r].kind)} :
              Len(LogOf(reqs[r].fetched, log)) >= 1
        /\ store[reqs[r].userId] = reqs[r].data

----------------------------------------------------------------------------
\* C3: last write wins.  A successful save leaves as the stored record exactly
\* the record the request built from its own fetch: the events it fetched plus
\* its own, whatever other requests have saved since that fetch.
C3_LastWriteWins ==
    [][\A r \in Reqs :
        SavedBy(r) =>
            /\ store'[reqs[r].userId] = reqs[r].progress
            /\ TotalEvents(store'[reqs[r].userId]) =
                  TotalEvents(reqs[r].fetched)
                      + (IF reqs[r].kind \in Recorders THEN 1 ELSE 0)]_vars

\* The lost update: two recording requests for one userId fetched the same
\* prior record, both answered 200, and the stored record holds one event more
\* than that prior record, not two.
C3_LostUpdate ==
    \E r1, r2 \in Reqs :
        /\ r1 # r2
        /\ reqs[r1].userId = reqs[r2].userId
        /\ reqs[r1].kind \in Recorders /\ reqs[r2].kind \in Recorders
        /\ reqs[r1].pc = "done" /\ reqs[r1].status = 200
        /\ reqs[r2].pc = "done" /\ reqs[r2].status = 200
        /\ reqs[r1].nGet = 1 /\ reqs[r2].nGet = 1
        /\ reqs[r1].fetched = reqs[r2].fetched
        /\ TotalEvents(store[reqs[r1].userId]) =
              TotalEvents(reqs[r1].fetched) + 1

----------------------------------------------------------------------------
\* C4: on each of the five routes a request whose caller identity is absent or
\* differs from the path userId answers 403 and calls neither get nor save.
C4_DeniedBeforeStore ==
    \A r \in Reqs :
        (reqs[r].pc # "idle" /\
         (reqs[r].caller = NoAuth \/ reqs[r].caller # reqs[r].userId)) =>
            /\ reqs[r].pc = "done"
            /\ reqs[r].status = 403
            /\ reqs[r].nGet = 0
            /\ reqs[r].nSave = 0

\* A request without identity and a request with another user's identity have
\* both been answered, on a reading route and on a recording route.
C4_Witness ==
    \E r1, r2 \in Reqs :
        /\ reqs[r1].pc = "done" /\ reqs[r1].caller = NoAuth
        /\ reqs[r1].kind \in {"getStudentProgress", "getStudentStatistics"}
        /\ reqs[r2].pc = "done" /\ reqs[r2].caller \in UserIds
        /\ reqs[r2].caller # reqs[r2].userId
        /\ reqs[r2].kind \in Recorders
        /\ reqs[r1].status = 403 /\ reqs[r2].status = 403

----------------------------------------------------------------------------
\* C5: an authorized recording request whose body lacks a required field of
\* its kind answers 400 and calls neither get nor save.
C5_MissingFieldBeforeStore ==
    \A r \in Reqs :
        (/\ reqs[r].pc # "idle"
         /\ reqs[r].kind \in Recorders
         /\ Authorized(reqs[r])
         /\ \E f \in RequiredFields(reqs[r].kind) : f \notin DOMAIN reqs[r].body)
        => /\ reqs[r].pc = "done"
           /\ reqs[r].status = 400
           /\ reqs[r].nGet = 0
           /\ reqs[r].nSave = 0

\* A quiz attempt without score and a lesson access without chapterId have
\* both been refused.
C5_Witness ==
    \E r1, r2 \in Reqs :
        /\ reqs[r1].kind = "recordQuizAttempt" /\ Authorized(reqs[r1])
        /\ "score" \notin DOMAIN reqs[r1].body
        /\ reqs[r1].status = 400
        /\ reqs[r2].kind = "recordLessonAccess" /\ Authorized(reqs[r2])
        /\ "chapterId" \notin DOMAIN reqs[r2].body
        /\ reqs[r2].status = 400

----------------------------------------------------------------------------
\* C6: an authorized discussion request whose activityType is none of Comment,
\* Reply, Reaction answers 400 and calls neither get nor save, and every
\* stored discussion activity has one of the three types.
C6_ActivityTypeChecked ==
    /\ \A r \in Reqs :
          (/\ reqs[r].pc # "idle"
           /\ reqs[r].kind = "recordDiscussionActivity"
           /\ Authorized(reqs[r])
           /\ "activityType" \in DOMAIN reqs[r].body
           /\ reqs[r].body.activityType \notin {"Comment", "Reply", "Reaction"})
          => /\ reqs[r].pc = "done"
             /\ reqs[r].status = 400
             /\ reqs[r].nGet = 0
             /\ reqs[r].nSave = 0
    /\ \A u \in UserIds :
          LET acts == LogOf(store[u], "discussionActivities")
          IN \A i \in 1..Len(acts) :
                acts[i].activityType \in {"Comment", "Reply", "Reaction"}

\* An activity of type Invalid has been refused for a user whose record holds
\* a discussion activity.
C6_Witness ==
    \E r \in Reqs :
        /\ reqs[r].kind = "recordDiscussionActivity" /\ Authorized(reqs[r])
        /\ "activityType" \in DOMAIN reqs[r].body
        /\ reqs[r].body.activityType = "Invalid"
        /\ reqs[r].status = 400
        /\ Len(LogOf(store[reqs[r].userId], "discussionActivities")) >= 1

----------------------------------------------------------------------------
\* C7: when a recording request saves while no record exists for its userId,
\* the record it creates has its target log equal to the one submitted event
\* and its two other logs empty.
C7_FirstEventCreatesRecord ==
    [][\A r \in Reqs :
        (/\ SavedBy(r)
         /\ reqs[r].kind \in Recorders
         /\ store[reqs[r].userId] = <<>>)
        => LET rec == store'[reqs[r].userId]
               log == TargetLog(reqs[r].kind)
           IN /\ rec # <<>>
              /\ rec[1].userId = reqs[r].userId
              /\ Len(rec[1][log]) = 1
              /\ Carries(rec[1][log][1], reqs[r].kind, reqs[r].body,
                         reqs[r].currentTime)
              /\ \A other \in Logs \ {log} : rec[1][other] = <<>>]_vars

\* A recording request that fetched no record has created one, and the store
\* holds it with a single event.
C7_Witness ==
    \E r \in Reqs :
        /\ reqs[r].pc = "done" /\ reqs[r].status = 200
        /\ reqs[r].kind \in Recorders
        /\ reqs[r].fetched = <<>>
        /\ store[reqs[r].userId] = reqs[r].data
        /\ TotalEvents(store[reqs[r].userId]) = 1

----------------------------------------------------------------------------
\* C8: when the get of a statistics request returns no record, the request
\* answers 404 and issues no save; no step of the handler of a statistics
\* request changes the store, so a userId without a record has none afterwards.
C8_StatisticsNotFound ==
    [][\A r \in Reqs :
        (reqs[r].kind = "getStudentStatistics" /\ reqs'[r].pc # reqs[r].pc) =>
            /\ store' = store
            /\ reqs'[r].nSave = 0
            /\ (reqs[r].pc = "gotten" /\ reqs[r].fetched = <<>>) =>
                  (reqs'[r].pc = "done" /\ reqs'[r].status = 404)]_vars

\* A statistics request has answered 404 and its userId has no record.
C8_Witness ==
    \E r \in Reqs :
        /\ reqs[r].kind = "getStudentStatistics"
        /\ reqs[r].pc = "done" /\ reqs[r].status = 404
        /\ reqs[r].nGet = 1 /\ reqs[r].nSave = 0
        /\ store[reqs[r].userId] = <<>>

----------------------------------------------------------------------------
\* C9: when the get or the save of a request fails, the request answers 500 in
\* that step and is finished, the store is left as it was, and the request has
\* issued at most one get and at most one save.
C9_AllOrNothing ==
    [][\A r \in Reqs :
        (StudentProgressGetFails(r) \/ ProgressSaveFails(r)) =>
            /\ reqs'[r].pc = "done"
            /\ reqs'[r].status = 500
            /\ store' = store
            /\ reqs'[r].nGet = 1
            /\ reqs'[r].nSave <= 1]_vars

\* A save onto an existing record has failed: the request answered 500 after
\* one get and one save, and the store still holds the record it had fetched.
C9_Witness ==
    \E r \in Reqs :
        /\ reqs[r].pc = "done" /\ reqs[r].status = 500
        /\ reqs[r].nGet = 1 /\ reqs[r].nSave = 1
        /\ reqs[r].fetched # <<>>
        /\ store[reqs[r].userId] = reqs[r].fetched

----------------------------------------------------------------------------
\* C10: a userId that has a record has one in every later state of the store.
C10_NeverDeleted ==
    [][\A u \in UserIds : store[u] # <<>> => store'[u] # <<>>]_vars

\* A request has created a record, and a later request that fetched that
\* record has failed on its save: the record is still there.
C10_Witness ==
    \E r1, r2 \in Reqs :
        /\ r1 < r2
        /\ reqs[r1].pc = "done" /\ reqs[r1].status = 200 /\ reqs[r1].nSave = 1
        /\ reqs[r2].pc = "done" /\ reqs[r2].userId = reqs[r1].userId
        /\ reqs[r2].fetched = reqs[r1].data
        /\ reqs[r2].status = 500 /\ reqs[r2].nSave = 1
        /\ store[reqs[r1].userId] # <<>>

----------------------------------------------------------------------------
\* C11 as stated: across every change of the store, under any interleaving of
\* requests, the stored lastActive of a userId does not decrease.
C11_LastActiveNeverDecreases ==
    [][\A u \in UserIds :
        (store[u] # <<>> /\ store'[u] # <<>>) =>
            store[u][1].lastActive <= store'[u][1].lastActive]_vars

\* C11 amended: a save made by a request that no other request for the same
\* userId overlaps does not decrease the stored lastActive of that userId and
\* leaves every other user's record as it was.
C11_LastActiveMonotoneUnoverlapped ==
    [][\A r \in Reqs :
        (SavedBy(r) /\ ~reqs[r].overlap) =>
            \A u \in UserIds :
                /\ (store[u] # <<>>) =>
                      /\ store'[u] # <<>>
                      /\ store[u][1].lastActive <= store'[u][1].lastActive
                /\ u # reqs[r].userId => store'[u] = store[u]]_vars

\* An unoverlapped recording has raised the lastActive of a stored record.
C11_Witness ==
    \E r \in Reqs :
        /\ reqs[r].pc = "done" /\ reqs[r].status = 200
        /\ reqs[r].kind \in Recorders /\ ~reqs[r].overlap
        /\ reqs[r].fetched # <<>>
        /\ reqs[r].fetched[1].lastActive < reqs[r].data[1].lastActive
        /\ store[reqs[r].userId] = reqs[r].data

----------------------------------------------------------------------------
\* The timestamps of the events of a record.
EventTimestamps(rec) ==
    {rec.lessonAccessHistory[i].accessTimestamp :
        i \in 1..Len(rec.lessonAccessHistory)}
    \cup {rec.quizAttempts[i].attemptTimestamp : i \in 1..Len(rec.quizAttempts)}
    \cup {rec.discussionActivities[i].timestamp :
            i \in 1..Len(rec.discussionActivities)}

\* C12 as stated: the lastActive of every stored record is the timestamp of
\* one of its events, the greatest of them.
C12_LastActiveIsAnEventTimestamp ==
    \A u \in UserIds :
        store[u] # <<>> =>
            /\ store[u][1].lastActive \in EventTimestamps(store[u][1])
            /\ \A t \in EventTimestamps(store[u][1]) :
                  t <= store[u][1].lastActive

\* C12 amended: the lastActive of every stored record that holds an event is
\* the greatest timestamp of its events; a stored record without events (the
\* record getStudentProgress creates) carries the time of its creation, which
\* is the timestamp of no event.
C12_LastActiveOfRecordsWithEvents ==
    \A u \in UserIds :
        store[u] # <<>> =>
            /\ store[u][1].lastActive <= clock
            /\ \A t \in EventTimestamps(store[u][1]) :
                  t <= store[u][1].lastActive
            /\ EventTimestamps(store[u][1]) # {} =>
                  store[u][1].lastActive \in EventTimestamps(store[u][1])

\* A stored record holds events of two different times and its lastActive is
\* the later one.
C12_Witness ==
    \E u \in UserIds :
        /\ store[u] # <<>>
        /\ EventTimestamps(store[u][1]) = {0, 1}
        /\ store[u][1].lastActive = 1

----------------------------------------------------------------------------
\* C13: getStudentProgress for an authorized userId.  When its fetch found no
\* record it saves a record with three empty logs under that userId and, the
\* save done, answers 200 with the record it saved; when its fetch found a
\* record it answers 200 with that record, issues no save and leaves the store
\* as it was.
C13_FetchOrLazilyCreate ==
    [][\A r \in Reqs :
        reqs[r].kind = "getStudentProgress" =>
            /\ (reqs[r].pc = "gotten" /\ reqs'[r].pc # "gotten") =>
                  IF reqs[r].fetched = <<>>
                  THEN /\ reqs'[r].pc = "save"
                       /\ reqs'[r].progress[1].userId = reqs[r].userId
                       /\ \A log \in Logs : reqs'[r].progress[1][log] = <<>>
                       /\ store' = store
                  ELSE /\ reqs'[r].pc = "done"
                       /\ reqs'[r].status = 200
                       /\ reqs'[r].data = reqs[r].fetched
                       /\ reqs'[r].nSave = 0
                       /\ store' = store
            /\ SavedBy(r) =>
                  /\ reqs[r].fetched = <<>>
                  /\ reqs[r].nSave = 1
                  /\ store'[reqs[r].userId] = reqs[r].progress
                  /\ reqs'[r].data = reqs[r].progress]_vars

\* One getStudentProgress has created the empty record of a user and a later
\* one has answered with the stored record without saving.
C13_Witness ==
    \E r1 \in Reqs, r2 \in Reqs :
        /\ reqs[r1].kind = "getStudentProgress"
        /\ reqs[r1].pc = "done" /\ reqs[r1].status = 200
        /\ reqs[r1].fetched = <<>> /\ reqs[r1].nSave = 1
        /\ reqs[r2].kind = "getStudentProgress"
        /\ reqs[r2].pc = "done" /\ reqs[r2].status = 200
        /\ reqs[r2].fetched = reqs[r1].data /\ reqs[r2].nSave = 0
        /\ reqs[r2].data = store[reqs[r2].userId]

----------------------------------------------------------------------------
\* Vocabulary of the statistics properties.

\* Request r has answered 200 on the statistics route.
StatsAnswered(r) ==
    /\ reqs[r].kind = "getStudentStatistics"
    /\ reqs[r].pc = "done"
    /\ reqs[r].status = 200

RECURSIVE ScoreTotalTo(_, _)
ScoreTotalTo(attempts, n) ==
    IF n = 0 THEN 0 ELSE attempts[n].score + ScoreTotalTo(attempts, n - 1)

CourseIdsOf(lessons) == {lessons[i].courseId : i \in 1..Len(lessons)}

Occurrences(lessons, c) ==
    Cardinality({i \in 1..Len(lessons) : lessons[i].courseId = c})

FirstIndex(lessons, c) ==
    CHOOSE i \in 1..Len(lessons) :
        /\ lessons[i].courseId = c
        /\ \A j \in 1..(i - 1) : lessons[j].courseId # c

TopValues(top) == {top[i].value : i \in 1..Len(top)}

----------------------------------------------------------------------------
\* C14: averageQuizScore of a statistics answer is 0 when the fetched record
\* has no quiz attempt, and otherwise the sum of the scores divided by the
\* number of attempts; scores 80, 90, 100 give 90.
C14_AverageQuizScore ==
    \A r \in Reqs :
        StatsAnswered(r) =>
            LET attempts == reqs[r].fetched[1].quizAttempts
                avg == reqs[r].data[1].averageQuizScore
            IN /\ avg.den > 0
               /\ attempts = <<>> => avg.num = 0
               /\ attempts # <<>> =>
                     avg.num * Len(attempts) =
                        ScoreTotalTo(attempts, Len(attempts)) * avg.den
               /\ [i \in 1..Len(attempts) |-> attempts[i].score]
                        = <<80, 90, 100>>
                     => avg = [num |-> 90, den |-> 1]

\* Statistics have been answered for attempts scoring 80, 90, 100, with
\* average 90.
C14_Witness ==
    \E r \in Reqs :
        /\ StatsAnswered(r)
        /\ [i \in 1..Len(reqs[r].fetched[1].quizAttempts) |->
                reqs[r].fetched[1].quizAttempts[i].score] = <<80, 90, 100>>
        /\ reqs[r].data[1].averageQuizScore = [num |-> 90, den |-> 1]

----------------------------------------------------------------------------
\* C15: uniqueLessonsAccessed of a statistics answer is the number of distinct
\* (courseId, sectionId, chapterId) triples in the fetched lessonAccessHistory.
C15_UniqueLessonsAreDistinctTriples ==
    \A r \in Reqs :
        StatsAnswered(r) =>
            LET lessons == reqs[r].fetched[1].lessonAccessHistory
            IN reqs[r].data[1].uniqueLessonsAccessed =
                  Cardinality({<<lessons[i].courseId, lessons[i].sectionId,
                                 lessons[i].chapterId>> : i \in 1..Len(lessons)})

----------------------------------------------------------------------------
----------------------------------------------------------------------------
IntegerRank(c) == CHOOSE i \in 1..Len(IntegerKeys) : IntegerKeys[i] = c

\* The order of the keys of the frequency object: integer-like ids first, in
\* ascending numeric order, then the other ids by first appearance.
KeyBefore(lessons, a, b) ==
    LET ia == a \in Range(IntegerKeys)
        ib == b \in Range(IntegerKeys)
    IN \/ ia /\ ~ib
       \/ ia /\ ib /\ IntegerRank(a) < IntegerRank(b)
       \/ ~ia /\ ~ib /\ FirstIndex(lessons, a) < FirstIndex(lessons, b)

----------------------------------------------------------------------------
\* C18: in a statistics answer totalDiscussionActivities is the length of the
\* fetched discussionActivities, each bucket of discussionBreakdown is the
\* number of activities of its type, and the three buckets add up to the total.
C18_DiscussionBreakdown ==
    \A r \in Reqs :
        StatsAnswered(r) =>
            LET acts == reqs[r].fetched[1].discussionActivities
                d == reqs[r].data[1]
                n(t) == Cardinality({i \in 1..Len(acts) :
                                        acts[i].activityType = t})
            IN /\ d.totalDiscussionActivities = Len(acts)
               /\ d.discussionBreakdown.comments = n("Comment")
               /\ d.discussionBreakdown.replies = n("Reply")
               /\ d.discussionBreakdown.reactions = n("Reaction")
               /\ d.discussionBreakdown.comments + d.discussionBreakdown.replies
                     + d.discussionBreakdown.reactions
                        = d.totalDiscussionActivities

\* Statistics have been answered for a record with one activity of each type.
C18_Witness ==
    \E r \in Reqs :
        /\ StatsAnswered(r)
        /\ reqs[r].data[1].totalDiscussionActivities = 3
        /\ reqs[r].data[1].discussionBreakdown =
              [comments |-> 1, replies |-> 1, reactions |-> 1]

----------------------------------------------------------------------------
\* The total that the statistics report for the log a recorder appends to.
TotalField(kind) ==
    CASE kind = "recordLessonAccess" -> "totalLessonsAccessed"
      [] kind = "recordQuizAttempt" -> "totalQuizAttempts"
      [] kind = "recordDiscussionActivity" -> "totalDiscussionActivities"

\* C19: getStudentStatistics is read-only and uncached.  A statistics request
\* never issues a save, whatever it answers, and fetches at most once; its 200
\* answer is the statistics of the record its own fetch returned; and a
\* statistics request that arrives after a completed recording for the same
\* userId (neither overlapped by another request for that userId) fetched a
\* record that holds the recorded event and counts it.
C19_StatisticsReadOnlyUncached ==
    /\ \A r \in Reqs :
          reqs[r].kind = "getStudentStatistics" =>
              /\ reqs[r].nSave = 0
              /\ reqs[r].pc # "save"
              /\ reqs[r].progress = <<>>
              /\ reqs[r].nGet <= 1
              /\ reqs[r].pc = "done" => reqs[r].status \in {200, 403, 404, 500}
              /\ (reqs[r].pc = "done" /\ reqs[r].status = 200) =>
                    /\ reqs[r].nGet = 1
                    /\ reqs[r].fetched # <<>>
                    /\ reqs[r].data = <<Statistics(reqs[r].fetched[1])>>
    /\ \A r1 \in Reqs, r2 \in Reqs :
          ( /\ r1 < r2
            /\ reqs[r1].kind \in Recorders
            /\ reqs[r1].pc = "done" /\ reqs[r1].status = 200
            /\ ~reqs[r1].overlap
            /\ reqs[r2].kind = "getStudentStatistics"
            /\ reqs[r2].userId = reqs[r1].userId
            /\ reqs[r2].pc = "done" /\ reqs[r2].status \in {200, 404}
            /\ ~reqs[r2].overlap ) =>
              LET log == TargetLog(reqs[r1].kind)
              IN /\ reqs[r2].status = 200
                 /\ IsPrefix(reqs[r1].data[1][log], reqs[r2].fetched[1][log])
                 /\ reqs[r2].data[1][TotalField(reqs[r1].kind)]
                        >= Len(reqs[r1].data[1][log])

\* A statistics request that arrived after a completed recording has answered
\* 200 counting the recorded event, and the store still holds the record as
\* the recording left it.
C19_Witness ==
    \E r1 \in Reqs, r2 \in Reqs :
        /\ r1 < r2
        /\ reqs[r1].kind \in Recorders
        /\ reqs[r1].pc = "done" /\ reqs[r1].status = 200 /\ ~reqs[r1].overlap
        /\ reqs[r2].kind = "getStudentStatistics"
        /\ reqs[r2].pc = "done" /\ reqs[r2].status = 200 /\ ~reqs[r2].overlap
        /\ reqs[r2].fetched = reqs[r1].data
        /\ reqs[r2].data[1][TotalField(reqs[r1].kind)] = 1
        /\ store[reqs[r2].userId] = reqs[r1].data

----------------------------------------------------------------------------
\* The handlers that compare the caller with the owner of a course.
OwnerChecked ==
    {"updateCourse", "deleteCourse", "createQuiz", "updateQuiz", "deleteQuiz",
     "addQuestion", "updateQuestion", "deleteQuestion"}

\* Request q holds a fetched course whose teacherId is not its caller.
NotTheOwner(q) == q.course # <<>> /\ q.course[1].teacherId # q.caller

\* C20: owner-only mutation.  In the step in which the Course.get of an
\* updateCourse, deleteCourse, createQuiz, updateQuiz, deleteQuiz, addQuestion,
\* updateQuestion or deleteQuestion request returns the course (the course of
\* the path, of the body, or of the fetched quiz) and its teacherId differs
\* from the caller, the request answers 403 having issued no save or delete;
\* it does nothing afterwards; and every change of the Course or Quiz table by
\* one of these handlers is made by a request whose caller is the teacherId of
\* the course it fetched.
C20_OwnerOnlyMutation ==
    [][/\ \A k \in Calls :
            (calls[k].pc = "courseGet" /\ calls'[k].course # <<>>) =>
                /\ calls[k].kind \in OwnerChecked
                /\ calls'[k].course =
                      courseTable[
                        IF calls[k].kind \in {"updateCourse", "deleteCourse"}
                        THEN calls[k].id
                        ELSE IF calls[k].kind = "createQuiz"
                        THEN calls[k].body.courseId
                        ELSE calls[k].quiz[1].courseId]
                /\ calls'[k].course[1].teacherId # calls[k].caller =>
                      /\ calls'[k].pc = "done"
                      /\ calls'[k].status = 403
                      /\ calls'[k].item = <<>>
                      /\ courseTable' = courseTable
                      /\ quizTable' = quizTable
       /\ \A k \in Calls : NotTheOwner(calls[k]) => calls'[k] = calls[k]
       /\ (courseTable' # courseTable \/ quizTable' # quizTable) =>
             \E k \in Calls :
                /\ calls[k].pc \in {"save", "delete"}
                /\ calls'[k].pc = "done"
                /\ calls[k].kind \in OwnerChecked =>
                      /\ calls[k].course # <<>>
                      /\ calls[k].course[1].teacherId = calls[k].caller]_vars

\* An updateCourse and a deleteQuiz of a teacher who does not own the course
\* have both answered 403, and the tables hold the course and its quiz as they
\* were.
C20_Witness ==
    \E k1 \in Calls, k2 \in Calls :
        /\ calls[k1].kind = "updateCourse" /\ calls[k2].kind = "deleteQuiz"
        /\ \A k \in {k1, k2} :
              /\ calls[k].pc = "done" /\ calls[k].status = 403
              /\ NotTheOwner(calls[k])
        /\ courseTable["c1"] = calls[k1].course
        /\ courseTable["c1"] = calls[k2].course
        /\ quizTable["q1"] = calls[k2].quiz
        /\ quizTable["q1"] # <<>>

----------------------------------------------------------------------------
\* The body of a recording request lacks a required field of its kind, or
\* names an activity type that is not one of the three.
BodyRejectable(kind, b) ==
    \/ \E f \in RequiredFields(kind) \ {"score"} :
            f \notin DOMAIN b \/ b[f] = ""
    \/ kind = "recordQuizAttempt" /\ "score" \notin DOMAIN b
    \/ /\ kind = "recordDiscussionActivity"
       /\ "activityType" \in DOMAIN b
       /\ b.activityType \notin {"Comment", "Reply", "Reaction"}

\* C21: in every recording handler the identity check precedes the field
\* validation.  A recording request whose caller differs from the path userId
\* and whose body would also be rejected answers 403, and a recording request
\* that answers 400 comes from the user of the path.
C21_IdentityBeforeValidation ==
    \A r \in Reqs :
        (reqs[r].kind \in Recorders /\ reqs[r].pc # "idle") =>
            /\ (/\ reqs[r].caller # reqs[r].userId
                /\ BodyRejectable(reqs[r].kind, reqs[r].body)) =>
                    /\ reqs[r].pc = "done"
                    /\ reqs[r].status = 403
            /\ (reqs[r].pc = "done" /\ reqs[r].status = 400) =>
                    /\ reqs[r].caller = reqs[r].userId
                    /\ BodyRejectable(reqs[r].kind, reqs[r].body)

\* A lesson access without courseId and a discussion activity of an unknown
\* type, both sent under another user's identity, have answered 403.
C21_Witness ==
    \E r1 \in Reqs, r2 \in Reqs :
        /\ reqs[r1].kind = "recordLessonAccess"
        /\ "courseId" \notin DOMAIN reqs[r1].body
        /\ reqs[r2].kind = "recordDiscussionActivity"
        /\ "activityType" \in DOMAIN reqs[r2].body
        /\ reqs[r2].body.activityType = "Invalid"
        /\ \A r \in {r1, r2} :
              /\ reqs[r].caller \in UserIds
              /\ reqs[r].caller # reqs[r].userId
              /\ reqs[r].pc = "done" /\ reqs[r].status = 403

----------------------------------------------------------------------------
\* C22: a recording request leaves everything but its appended element
\* unchanged.  In the record it saves, the two logs it does not append to are
\* those of the record it fetched (empty when it fetched none), the target log
\* is the fetched target log followed by one element, and userId is the userId
\* of the path and of the fetched record.
C22_OnlyTheAppendedElement ==
    \A r \in Reqs :
        (reqs[r].kind \in Recorders /\ reqs[r].progress # <<>>) =>
            LET saved == reqs[r].progress[1]
                target == TargetLog(reqs[r].kind)
            IN /\ \A log \in Logs \ {target} :
                     saved[log] = LogOf(reqs[r].fetched, log)
               /\ Len(saved[target]) = Len(LogOf(reqs[r].fetched, target)) + 1
               /\ IsPrefix(LogOf(reqs[r].fetched, target), saved[target])
               /\ saved.userId = reqs[r].userId
               /\ reqs[r].fetched # <<>> =>
                     saved.userId = reqs[r].fetched[1].userId

\* A recording that fetched a record with an event in a log it does not
\* append to has saved that log as it was, next to its own event, and the
\* store holds the record.
C22_Witness ==
    \E r \in Reqs :
        /\ reqs[r].kind \in Recorders
        /\ reqs[r].pc = "done" /\ reqs[r].status = 200
        /\ reqs[r].fetched # <<>>
        /\ \E log \in Logs \ {TargetLog(reqs[r].kind)} :
              /\ Len(reqs[r].fetched[1][log]) = 1
              /\ reqs[r].progress[1][log] = reqs[r].fetched[1][log]
        /\ Len(reqs[r].progress[1][TargetLog(reqs[r].kind)]) = 1
        /\ reqs[r].progress[1].lastActive = 1
        /\ store[reqs[r].userId] = reqs[r].progress

----------------------------------------------------------------------------
\* C23: the time is read once per recording request.  In the record a
\* recording request saves, lastActive is the timestamp of the event that the
\* request appended, on the create path and on the append path.
C23_OneTimePerRequest ==
    \A r \in Reqs :
        (reqs[r].kind \in Recorders /\ reqs[r].progress # <<>>) =>
            LET saved == reqs[r].progress[1]
                log == saved[TargetLog(reqs[r].kind)]
            IN /\ log # <<>>
               /\ saved.lastActive = log[Len(log)][TimestampField(reqs[r].kind)]
               /\ saved.lastActive = reqs[r].currentTime

\* One recording has created a record at time 0 and another has appended to
\* that record at time 1.
C23_Witness ==
    \E r1 \in Reqs, r2 \in Reqs :
        /\ reqs[r1].kind \in Recorders /\ reqs[r2].kind \in Recorders
        /\ reqs[r1].progress # <<>> /\ reqs[r2].progress # <<>>
        /\ reqs[r1].fetched = <<>> /\ reqs[r1].progress[1].lastActive = 0
        /\ reqs[r2].fetched = reqs[r1].progress
        /\ reqs[r2].progress[1].lastActive = 1
        /\ store[reqs[r2].userId] = reqs[r2].progress

----------------------------------------------------------------------------
\* The timestamps of a log, in the order of the log.
TimesOf(log, field) == [i \in 1..Len(log) |-> log[i][field]]

NonDecreasing(times) ==
    \A i \in 1..Len(times), j \in 1..Len(times) : i < j => times[i] <= times[j]

\* C24: insertion order is chronological order.  In every reachable stored
\* record the timestamps of each log are non-decreasing from the first to the
\* last element, under any interleaving of requests, the clock never going
\* back.
C24_LogsAreChronological ==
    \A u \in UserIds :
        store[u] # <<>> =>
            /\ NonDecreasing(TimesOf(store[u][1].lessonAccessHistory,
                                     "accessTimestamp"))
            /\ NonDecreasing(TimesOf(store[u][1].quizAttempts,
                                     "attemptTimestamp"))
            /\ NonDecreasing(TimesOf(store[u][1].discussionActivities,
                                     "timestamp"))

\* A stored log holds an event of time 0 followed by an event of time 1,
\* appended by a request that another request for the same user overlapped.
C24_Witness ==
    \E r \in Reqs :
        /\ reqs[r].kind \in Recorders /\ reqs[r].overlap
        /\ reqs[r].pc = "done" /\ reqs[r].status = 200
        /\ store[reqs[r].userId] = reqs[r].progress
        /\ TimesOf(reqs[r].progress[1][TargetLog(reqs[r].kind)],
                   TimestampField(reqs[r].kind)) = <<0, 1>>

----------------------------------------------------------------------------
\* C25: per-user isolation.  Every stored record is filed under its own
\* userId and is the record saved by a request addressed to that userId; a
\* request fetches and builds only records of the userId of its path; and a
\* recording that has answered 200 for a userId to which no other request is
\* addressed has its record stored, whatever the requests for other userIds
\* did meanwhile.
C25_PerUserIsolation ==
    /\ \A v \in UserIds :
          store[v] # <<>> =>
              /\ store[v][1].userId = v
              /\ \E r \in Reqs :
                    /\ reqs[r].userId = v
                    /\ reqs[r].pc = "done" /\ reqs[r].status = 200
                    /\ reqs[r].nSave = 1
                    /\ reqs[r].progress = store[v]
    /\ \A r \in Reqs :
          /\ reqs[r].fetched # <<>> =>
                reqs[r].fetched[1].userId = reqs[r].userId
          /\ reqs[r].progress # <<>> =>
                reqs[r].progress[1].userId = reqs[r].userId
    /\ \A r \in Reqs :
          ( /\ reqs[r].kind \in Recorders
            /\ reqs[r].pc = "done" /\ reqs[r].status = 200
            /\ \A p \in Reqs \ {r} :
                  reqs[p].pc = "idle" \/ reqs[p].userId # reqs[r].userId ) =>
              /\ store[reqs[r].userId] = reqs[r].progress
              /\ Len(store[reqs[r].userId][1][TargetLog(reqs[r].kind)]) = 1

\* Two recordings for different userIds have both answered 200 and both
\* records are stored, each with its own event.
C25_Witness ==
    \E r1 \in Reqs, r2 \in Reqs :
        /\ reqs[r1].userId = "u1" /\ reqs[r2].userId = "u2"
        /\ \A r \in {r1, r2} :
              /\ reqs[r].kind \in Recorders
              /\ reqs[r].pc = "done" /\ reqs[r].status = 200
              /\ store[reqs[r].userId] = reqs[r].progress
              /\ TotalEvents(store[reqs[r].userId]) = 1

----------------------------------------------------------------------------
\* C26: a getStudentProgress request never makes a stored event disappear.
\* Once a getStudentProgress request for a userId has completed, the event of
\* every recording request for that userId that answered 200 is in the stored
\* record.
C26_GetKeepsStoredEvents ==
    \A r1 \in Reqs, r2 \in Reqs :
        ( /\ reqs[r1].kind \in Recorders
          /\ reqs[r1].pc = "done" /\ reqs[r1].status = 200
          /\ reqs[r2].kind = "getStudentProgress"
          /\ reqs[r2].userId = reqs[r1].userId
          /\ reqs[r2].pc = "done" ) =>
            LET log == TargetLog(reqs[r1].kind)
                recorded == reqs[r1].progress[1][log]
            IN /\ store[reqs[r1].userId] # <<>>
               /\ \E i \in 1..Len(store[reqs[r1].userId][1][log]) :
                     store[reqs[r1].userId][1][log][i]
                        = recorded[Len(recorded)]

----------------------------------------------------------------------------
\* C27: every progress request terminates and sends exactly one response.  A
\* request never has sent more than one response, it has sent one exactly when
\* its handler has ended, the status of that response is 200, 400, 403, 404 or
\* 500, and, every store call eventually returning or failing, every request
\* that has arrived eventually ends.
C27_ExactlyOneResponse ==
    /\ [](\A r \in Reqs :
            /\ reqs[r].nResp <= 1
            /\ (reqs[r].pc = "done") <=> (reqs[r].nResp = 1)
            /\ reqs[r].pc = "done" =>
                  reqs[r].status \in {200, 400, 403, 404, 500})
    /\ \A r \in Reqs : (reqs[r].pc # "idle") ~> (reqs[r].pc = "done")

\* Two requests have ended, one answered 200 after a save and the other 500
\* after a failed store call, each with one response.
C27_Witness ==
    \E r1 \in Reqs, r2 \in Reqs :
        /\ reqs[r1].pc = "done" /\ reqs[r1].status = 200
        /\ reqs[r1].nSave = 1 /\ reqs[r1].nResp = 1
        /\ reqs[r2].pc = "done" /\ reqs[r2].status = 500
        /\ reqs[r2].nGet = 1 /\ reqs[r2].nResp = 1

----------------------------------------------------------------------------
\* C28: category slugs are unique.  In every reachable state of the Category
\* table no two stored categories have the same slug, under any sequence and
\* interleaving of createCategory and updateCategory requests.
C28_SlugsUnique ==
    \A g1 \in CategoryIds, g2 \in CategoryIds :
        (g1 # g2 /\ categoryTable[g1] # <<>> /\ categoryTable[g2] # <<>>) =>
            categoryTable[g1][1].slug # categoryTable[g2][1].slug

----------------------------------------------------------------------------
\* C29: an update addressed to an id in the path changes only that record.
\* In the step in which the save of an updateCourse request for path courseId
\* c (of an updateQuiz request for path quizId q) completes, every stored
\* course other than c (quiz other than q) is left as it was, whatever the
\* body holds, and the course c keeps its teacherId, so that the owner check
\* of later requests still compares with c's owner.
C29_UpdateChangesOnlyItsRecord ==
    [][\A k \in Calls :
          (calls[k].pc = "save" /\ calls'[k].pc = "done"
              /\ calls'[k].status = 200) =>
            /\ calls[k].kind = "updateCourse" =>
                  /\ \A c \in CourseIds \ {calls[k].id} :
                        courseTable'[c] = courseTable[c]
                  /\ courseTable'[calls[k].id] # <<>>
                  /\ courseTable'[calls[k].id][1].teacherId =
                        calls[k].course[1].teacherId
            /\ calls[k].kind = "updateQuiz" =>
                  \A z \in QuizIds \ {calls[k].id} :
                        quizTable'[z] = quizTable[z]]_vars

----------------------------------------------------------------------------
\* The MultipleChoice questions of a quiz each have at least 2 options.
TwoOptionsEach(quiz) ==
    \A i \in 1..Len(quiz.questions) :
        quiz.questions[i].type = "MultipleChoice" =>
            Len(quiz.questions[i].options) >= 2

\* C30: every MultipleChoice question in every stored quiz has at least 2
\* options, after any sequence of addQuestion, updateQuestion, updateQuiz and
\* deleteQuestion requests; a request whose item would hold a MultipleChoice
\* question with fewer than 2 options answers 400 and saves nothing.
C30_MultipleChoiceHasTwoOptions ==
    /\ \A z \in QuizIds : quizTable[z] # <<>> => TwoOptionsEach(quizTable[z][1])
    /\ \A k \in Calls :
          (calls[k].kind \in {"addQuestion", "updateQuestion", "updateQuiz",
                              "deleteQuestion"}
              /\ calls[k].item # <<>>) => TwoOptionsEach(calls[k].item[1])

====
